---- MODULE Spec2Model ----
(***************************************************************************)
(* Model of the upload pipeline of salkaro/api (src/api/upload.go).        *)
(*                                                                         *)
(* One request-handling task per process p.  A task walks through          *)
(* UploadHandler/handleUpload one gate at a time; the identity store, the  *)
(* storage engine and the clock are the environment.                       *)
(*                                                                         *)
(* Strings that the code slices or concatenates (the credential, the       *)
(* device id) are sequences of one-character strings.  64-bit timestamps   *)
(* are pairs [hi, lo] standing for hi * 10^6 + lo with 0 <= lo < 10^6.     *)
(***************************************************************************)
EXTENDS Integers, Sequences, FiniteSets, TLC

VARIABLES
    pc,           \* pc[p]: the place of task p in UploadHandler/handleUpload
    req,          \* req[p]: the locals of handleUpload for task p
    gates,        \* gates[p]: the gates task p has entered, in order
    fx,           \* fx[p]: the external effects task p has caused
    resp,         \* resp[p]: the response written by task p
    limiters,     \* the registry: limiter key -> tokens available now
    mu,           \* the tasks holding the registry mutex mu
    window,       \* per limiter, since time last passed: tokens at the start,
                  \* Allow calls made, Allow calls that passed
    count,        \* storage engine: bucket -> stored points of the organization
    registered,   \* identity store: credentials present under tokens/<org>/apiKeys
    env,          \* process environment read by initClients
    initialized,  \* the initialized flag
    clients,      \* how often each client handle has been assigned
    scenario      \* what is explored: the methods, headers, bodies and (per
                  \* credential) device ids that requests carry, and the ways
                  \* the dependencies answer

vars == <<pc, req, gates, fx, resp, limiters, mu, window, count, registered, env, scenario,
          initialized, clients>>

Procs == {1, 2}

-----------------------------------------------------------------------------
(* Bounds of the model *)

\* writes are explored until a bucket holds this many points above its ceiling
MaxOver == 1
\* the stored count is explored down to this many points below the ceiling
MaxUnder == 1
\* how often a client handle is assigned at most before the model stops
MaxAssign == 2
\* Allow calls on one limiter are counted up to this many while no time passes
MaxCalls == 3

-----------------------------------------------------------------------------
(* 64-bit integers as [hi, lo] = hi * Base + lo *)

Base == 1000 * 1000

Big(h, l) == [hi |-> h, lo |-> l]

BigLt(a, b) == a.hi < b.hi \/ (a.hi = b.hi /\ a.lo < b.lo)

BigNeg(a) == IF a.lo = 0 THEN Big(0 - a.hi, 0) ELSE Big(0 - a.hi - 1, Base - a.lo)

BigAbs(a) == IF a.hi < 0 THEN BigNeg(a) ELSE a

\* floor(a / 1000) and a mod 1000 for a = hi * 10^6 + lo
BigDiv1000(a) ==
    LET q == a.hi * 1000 + (a.lo \div 1000)
    IN  Big(q \div Base, q % Base)

BigMod1000(a) == a.lo % 1000

\* raw < 1_000_000_000_000 in handleUpload
Threshold == Big(1000000, 0)

-----------------------------------------------------------------------------
(* Strings *)

Str7   == <<"k", "0", "0", "0", "7", "0", "2">>
Str365 == <<"k", "0", "3", "6", "5", "0", "3">>
Str999 == <<"k", "9", "9", "9", "9", "0", "4">>
StrLvl == <<"k", "0", "0", "0", "7", "0", "1">>
StrShort == <<"x", "0", "2">>
StrFive  == <<"0", "0", "7", "0", "2">>
StrTiny  == <<"2">>

Credentials == {Str7, Str365, Str999, StrLvl, StrShort, StrFive, StrTiny}

\* a credential and a device id that carry a ':' inside
Cred6     == <<"0", "0", "0", "7", "0", "2">>
CredColon == Cred6 \o <<":">> \o Cred6

Dev1 == <<"d", "e", "v", "1">>
Dev2 == <<"d", "e", "v", "2">>
DevD == <<"d">>
DevColon == Cred6 \o <<":">> \o DevD
Empty == <<>>

\* devices present under devices/<org>/sensors
RegisteredDevices == {Dev1, DevD, DevColon}

Orgs == {"", "org1"}

\* apiKey + ":" + sensorID
Concat(a, b) == a \o <<":">> \o b

\* strings.HasPrefix(auth, "Bearer ") / strings.TrimPrefix: the header is
\* modelled by whether it carries the prefix and by what follows it
Headers == {[bearer |-> FALSE, rest |-> Empty]}
             \cup {[bearer |-> TRUE, rest |-> k] : k \in Credentials}

Methods == {"POST", "GET"}

-----------------------------------------------------------------------------
(* Request bodies: JSON documents *)

JAbsent == "absent"

\* a JSON member: its kind and its payload
TsField(k, v)  == [k |-> k, v |-> v]
ValField(k, v) == [k |-> k, v |-> v]
IdField(k, v)  == [k |-> k, v |-> v]
StField(k, v)  == [k |-> k, v |-> v]

Zero == Big(0, 0)
\* 1700000000
TSec == Big(1700, 0)

Timestamps ==
    { TSec,
      Zero,
      Big(999999, 999999),       \* 10^12 - 1
      Big(1000000, 0),           \* 10^12
      Big(1700000, 123),         \* 1700000000123
      Big(0 - 1, 999999),        \* -1
      Big(0 - 1000000, 1),       \* -(10^12) + 1
      Big(0 - 1000000, 0),       \* -(10^12)
      Big(0 - 1700000, 0) }      \* -1700000000000

ValueFields ==
    { ValField(JAbsent, ""), ValField("null", ""), ValField("number", "21.5"),
      ValField("string", "on"), ValField("bool", "true"),
      ValField("array", "[1]"), ValField("object", "{}") }

Body(ok, sid, ts, val, st) ==
    [ok |-> ok, sensorId |-> sid, timestamp |-> ts, value |-> val, status |-> st]

NoId == IdField(JAbsent, Empty)
NoSt == StField(JAbsent, "")

\* the bodies explored: each member varied against an otherwise plain reading
Bodies ==
    { Body(FALSE, NoId, TsField(JAbsent, Zero), ValField(JAbsent, ""), NoSt) }
    \cup { Body(TRUE, NoId, TsField("int", t), ValField("number", "21.5"), NoSt)
             : t \in Timestamps }
    \cup { Body(TRUE, NoId, TsField(k, TSec), v, NoSt)
             : k \in {JAbsent, "null", "string", "int"}, v \in ValueFields }
    \cup { Body(TRUE, sid, TsField("int", TSec), v, st)
             : sid \in {IdField("string", Empty), IdField("string", Dev2)},
               v \in {ValField("number", "21.5"), ValField("null", ""),
                      ValField("array", "[1]")},
               st \in {NoSt, StField("string", "ok")} }

\* encoding/json into an `any`: the Go dynamic type of a decoded member
GoType(k) ==
    CASE k = "number" -> "float64"
      [] k = "string" -> "string"
      [] k = "bool"   -> "bool"
      [] k = "array"  -> "slice"
      [] k = "object" -> "map"
      [] OTHER        -> "nil"

Ptr(isNil, v) == [nil |-> isNil, v |-> v]

NoReading ==
    [SensorID |-> Ptr(TRUE, Empty), Timestamp |-> Ptr(TRUE, Zero),
     Value |-> [t |-> "nil", v |-> ""], Status |-> Ptr(TRUE, "")]

\* json.NewDecoder(r.Body).Decode(&reading): a syntax error, or a member of
\* the wrong JSON kind for its Go type, is a decode error
DecodeFails(body) ==
    \/ ~body.ok
    \/ body.timestamp.k = "string"

Decode(body) ==
    [SensorID  |-> Ptr(body.sensorId.k = JAbsent, body.sensorId.v),
     Timestamp |-> Ptr(body.timestamp.k # "int", body.timestamp.v),
     Value     |-> [t |-> GoType(body.value.k),
                    v |-> IF GoType(body.value.k) = "nil" THEN "" ELSE body.value.v],
     Status    |-> Ptr(body.status.k = JAbsent, body.status.v)]

-----------------------------------------------------------------------------
(* Pure functions of upload.go *)

AllowedLevels == { <<"0", "2">>, <<"0", "3">>, <<"0", "4">> }

isUploadAllowed(apiKey) ==
    IF Len(apiKey) < 2
    THEN FALSE
    ELSE SubSeq(apiKey, Len(apiKey) - 1, Len(apiKey)) \in AllowedLevels

\* apiKey[len(apiKey)-6 : len(apiKey)-2] panics when the low bound is negative
SliceInRange(apiKey) == Len(apiKey) - 6 >= 0

RetentionCodeOf(apiKey) == SubSeq(apiKey, Len(apiKey) - 5, Len(apiKey) - 2)

Code7   == <<"0", "0", "0", "7">>
Code30  == <<"0", "0", "3", "0">>
Code90  == <<"0", "0", "9", "0">>
Code180 == <<"0", "1", "8", "0">>
Code365 == <<"0", "3", "6", "5">>

\* a table whose seven-day code selects the thirty-day database
retentionBucketsShifted(code) ==
    CASE code = Code7   -> "retention_30d"
      [] code = Code30  -> "retention_30d"
      [] code = Code90  -> "retention_90d"
      [] code = Code180 -> "retention_180d"
      [] code = Code365 -> "retention_365d"
      [] OTHER          -> ""

\* a table that files every unknown code under the seven-day database
retentionBucketsDefault(code) ==
    CASE code = Code7   -> "retention_7d"
      [] code = Code30  -> "retention_30d"
      [] code = Code90  -> "retention_90d"
      [] code = Code180 -> "retention_180d"
      [] code = Code365 -> "retention_365d"
      [] OTHER          -> "retention_7d"

\* retentionBuckets[code]; a missing key reads as ""
retentionBuckets(code) ==
    CASE code = Code7   -> "retention_7d"
      [] code = Code30  -> "retention_30d"
      [] code = Code90  -> "retention_90d"
      [] code = Code180 -> "retention_180d"
      [] code = Code365 -> "retention_365d"
      [] OTHER          -> ""

Buckets == { "retention_7d", "retention_30d", "retention_90d",
             "retention_180d", "retention_365d" }

\* quotaMap[code]; 0 with ok = false for a missing key
quotaMap(code) ==
    CASE code = Code7   -> [ok |-> TRUE, max |-> 10000]
      [] code = Code30  -> [ok |-> TRUE, max |-> 100000]
      [] code = Code90  -> [ok |-> TRUE, max |-> 1000000]
      [] code = Code180 -> [ok |-> TRUE, max |-> 10000000]
      [] code = Code365 -> [ok |-> TRUE, max |-> 1000000000]
      [] OTHER          -> [ok |-> FALSE, max |-> 0]

\* the ceiling of the tier a bucket belongs to
CeilingOf(bucket) ==
    CASE bucket = "retention_7d"   -> quotaMap(Code7).max
      [] bucket = "retention_30d"  -> quotaMap(Code30).max
      [] bucket = "retention_90d"  -> quotaMap(Code90).max
      [] bucket = "retention_180d" -> quotaMap(Code180).max
      [] bucket = "retention_365d" -> quotaMap(Code365).max

\* the nil check left out and nil let through
validateReadingNoNil(r) ==
    IF r.Value.t \in {"nil", "float64", "string", "bool"}
    THEN ""
    ELSE "value must be number, string, or boolean"

\* validateReading: "" for nil
validateReading(r) ==
    IF r.Value.t = "nil"
    THEN "value cannot be null"
    ELSE IF r.Value.t \in {"float64", "string", "bool"}
         THEN ""
         ELSE "value must be number, string, or boolean"

\* a time.Time: whole seconds since the epoch and nanoseconds within the second
Instant(sec, nsec) == [sec |-> sec, nsec |-> nsec]

\* time.Unix(raw, 0)
TimeUnix(raw) == Instant(raw, 0)

\* time.UnixMilli(raw)
TimeUnixMilli(raw) == Instant(BigDiv1000(raw), BigMod1000(raw) * Base)

\* the boundary value itself taken as seconds
NormalizeTimestampLe(raw) ==
    IF BigLt(raw, Threshold) \/ raw = Threshold
    THEN TimeUnix(raw)
    ELSE TimeUnixMilli(raw)

\* the magnitude compared instead of the signed value
NormalizeTimestampAbs(raw) ==
    IF BigLt(BigAbs(raw), Threshold) THEN TimeUnix(raw) ELSE TimeUnixMilli(raw)

\* the timestamp normalisation of handleUpload
NormalizeTimestamp(raw) ==
    IF BigLt(raw, Threshold) THEN TimeUnix(raw) ELSE TimeUnixMilli(raw)

\* the ceiling itself still admitted
QuotaExceededStrict(currentCount, maxPoints) == currentCount > maxPoints

\* currentCount >= maxPoints
QuotaExceeded(currentCount, maxPoints) == currentCount >= maxPoints

-----------------------------------------------------------------------------
(* Responses *)

NoResp == [status |-> 0, body |-> ""]

\* the responses with one status changed
HttpErrorWith(cause, other, response) ==
    CASE cause = other           -> response
      [] cause = "init"          -> [status |-> 500, body |-> "Internal Server Error"]
      [] cause = "method"        -> [status |-> 405, body |-> "Method Not Allowed"]
      [] cause = "auth_header"   -> [status |-> 401, body |-> "Unauthorized"]
      [] cause = "params"        -> [status |-> 400, body |-> "Missing org_id or sensor_id query parameter"]
      [] cause = "access_key"    -> [status |-> 401, body |-> "Unauthorized"]
      [] cause = "access_device" -> [status |-> 401, body |-> "Unauthorized"]
      [] cause = "rate"          -> [status |-> 429, body |-> "Rate limit exceeded"]
      [] cause = "decode"        -> [status |-> 400, body |-> "Bad Request: <decode error>"]
      [] cause = "timestamp"     -> [status |-> 400, body |-> "Missing timestamp"]
      [] cause = "value_null"    -> [status |-> 400, body |-> "Bad Reading: value cannot be null"]
      [] cause = "value_type"    -> [status |-> 400, body |-> "Bad Reading: value must be number, string, or boolean"]
      [] cause = "retention"     -> [status |-> 400, body |-> "Unknown retention level"]
      [] cause = "quota_tier"    -> [status |-> 400, body |-> "Unknown retention tier"]
      [] cause = "query"         -> [status |-> 500, body |-> "Internal Server Error"]
      [] cause = "iterator"      -> [status |-> 500, body |-> "Internal Server Error"]
      [] cause = "quota"         -> [status |-> 402, body |-> "Quota exceeded"]
      [] cause = "marshal"       -> [status |-> 500, body |-> "Failed to process data"]
      [] cause = "write"         -> [status |-> 500, body |-> "Failed to write data"]

\* a rate-limited request answered like an unauthorized one
HttpErrorRateAs401(cause) ==
    HttpErrorWith(cause, "rate", [status |-> 401, body |-> "Unauthorized"])

\* a failed device lookup answered apart from a failed credential lookup
HttpErrorDeviceTold(cause) ==
    HttpErrorWith(cause, "access_device", [status |-> 404, body |-> "Unknown sensor"])

\* the http.Error calls of UploadHandler, handleUpload and validateCountLimit,
\* by the check that failed
HttpError(cause) ==
    CASE cause = "init"          -> [status |-> 500, body |-> "Internal Server Error"]
      [] cause = "method"        -> [status |-> 405, body |-> "Method Not Allowed"]
      [] cause = "auth_header"   -> [status |-> 401, body |-> "Unauthorized"]
      [] cause = "params"        -> [status |-> 400, body |-> "Missing org_id or sensor_id query parameter"]
      [] cause = "access_key"    -> [status |-> 401, body |-> "Unauthorized"]
      [] cause = "access_device" -> [status |-> 401, body |-> "Unauthorized"]
      [] cause = "rate"          -> [status |-> 429, body |-> "Rate limit exceeded"]
      [] cause = "decode"        -> [status |-> 400, body |-> "Bad Request: <decode error>"]
      [] cause = "timestamp"     -> [status |-> 400, body |-> "Missing timestamp"]
      [] cause = "value_null"    -> [status |-> 400, body |-> "Bad Reading: value cannot be null"]
      [] cause = "value_type"    -> [status |-> 400, body |-> "Bad Reading: value must be number, string, or boolean"]
      [] cause = "retention"     -> [status |-> 400, body |-> "Unknown retention level"]
      [] cause = "quota_tier"    -> [status |-> 400, body |-> "Unknown retention tier"]
      [] cause = "query"         -> [status |-> 500, body |-> "Internal Server Error"]
      [] cause = "iterator"      -> [status |-> 500, body |-> "Internal Server Error"]
      [] cause = "quota"         -> [status |-> 402, body |-> "Quota exceeded"]
      [] cause = "marshal"       -> [status |-> 500, body |-> "Failed to process data"]
      [] cause = "write"         -> [status |-> 500, body |-> "Failed to write data"]

\* Step 12 of handleUpload
Accepted == [status |-> 202, body |-> "{\"status\":\"accepted\"}"]

-----------------------------------------------------------------------------
(* The order of the steps of handleUpload *)

\* the rate gate placed before access control
GateAfterRateFirst(g) ==
    CASE g = "MethodCheck"       -> "AuthHeaderPresent"
      [] g = "AuthHeaderPresent" -> "ParamsPresent"
      [] g = "ParamsPresent"     -> "RateLimit"
      [] g = "RateLimit"         -> "AccessControl"
      [] g = "AccessControl"     -> "DecodePayload"
      [] g = "DecodePayload"     -> "ReadingValidate"
      [] g = "ReadingValidate"   -> "RetentionClassify"
      [] g = "RetentionClassify" -> "QuotaGuard"
      [] g = "QuotaGuard"        -> "Write"
      [] g = "Write"             -> "Respond"

GateAfter(g) ==
    CASE g = "MethodCheck"       -> "AuthHeaderPresent"
      [] g = "AuthHeaderPresent" -> "ParamsPresent"
      [] g = "ParamsPresent"     -> "AccessControl"
      [] g = "AccessControl"     -> "RateLimit"
      [] g = "RateLimit"         -> "DecodePayload"
      [] g = "DecodePayload"     -> "ReadingValidate"
      [] g = "ReadingValidate"   -> "RetentionClassify"
      [] g = "RetentionClassify" -> "QuotaGuard"
      [] g = "QuotaGuard"        -> "Write"
      [] g = "Write"             -> "Respond"

-----------------------------------------------------------------------------
(* State of a task *)

NoPoint ==
    [database |-> "", org |-> "", sensor |-> Empty,
     value |-> [t |-> "nil", v |-> ""], status |-> Ptr(TRUE, ""),
     ts |-> Instant(Zero, 0)]

NewReq ==
    [apiKey |-> Empty, orgID |-> "", sensorID |-> Empty, limKey |-> Empty,
     reading |-> NoReading, raw |-> Zero, ts |-> Instant(Zero, 0),
     retentionCode |-> Empty, bucket |-> "", currentCount |-> 0,
     countRead |-> FALSE, point |-> NoPoint, cause |-> ""]

\* lookups: identity-store reads; registry: getRateLimiter calls; tokens: tokens
\* taken; queries: count queries; writes: the points handed to
\* influxClient.Write; acked: the Write calls that returned no error
NoFx == [lookups |-> <<>>, registry |-> 0, tokens |-> 0, queries |-> 0,
         writes |-> <<>>, acked |-> 0]

\* rate.NewLimiter(2, 2): two events per second, burst two
Rate  == 2
Burst == 2

Min(a, b) == IF a < b THEN a ELSE b

\* the contents of tokens/<org>/apiKeys explored: no credential, or any one
RegisteredSets == { {} } \cup { {k} : k \in Credentials }

Envs == { [project |-> TRUE,  influx |-> TRUE],
          [project |-> FALSE, influx |-> TRUE],
          [project |-> TRUE,  influx |-> FALSE] }

\* what influxClient.Query and the iterator hand back:
\*   "err"      Query returns an error
\*   "iterErr"  iterator.Err() is set after the loop
\*   "count"    a row whose "count" is an int64
\*   "nocount"  no row, or a row whose "count" is not an int64
QueryOutcomes == {"err", "iterErr", "count", "nocount"}

\* every request and every answer of a dependency
AnyScenario ==
    [methods |-> Methods, headers |-> Headers, orgs |-> Orgs,
     sensors |-> [k \in Credentials \cup {Empty} |-> {Empty, Dev1, Dev2}],
     bodies |-> Bodies,
     faults |-> BOOLEAN, outcomes |-> QueryOutcomes]

Init ==
    /\ pc = [p \in Procs |-> IF p = 1 THEN "idle" ELSE "off"]
    /\ req = [p \in Procs |-> NewReq]
    /\ gates = [p \in Procs |-> <<>>]
    /\ fx = [p \in Procs |-> NoFx]
    /\ resp = [p \in Procs |-> NoResp]
    /\ limiters = <<>>
    /\ mu = {}
    /\ window = <<>>
    /\ count = [b \in Buckets |-> CeilingOf(b) - MaxUnder]
    /\ registered \in RegisteredSets
    /\ env \in Envs
    /\ initialized = FALSE
    /\ clients = [fs |-> 0, influx |-> 0]
    /\ scenario = AnyScenario

\* a gate failed: http.Error and return
Reject(p, cause, r) ==
    /\ req' = [req EXCEPT ![p] = [r EXCEPT !.cause = cause]]
    /\ resp' = [resp EXCEPT ![p] = HttpError(cause)]
    /\ pc' = [pc EXCEPT ![p] = "done"]

\* a gate passed
Proceed(p, next, r) ==
    /\ req' = [req EXCEPT ![p] = r]
    /\ resp' = resp
    /\ pc' = [pc EXCEPT ![p] = next]

Enter(p, g) == gates' = [gates EXCEPT ![p] = Append(@, g)]

\* a request arrives; the task of a finished request takes the next one
Start(p) ==
    /\ pc[p] \in {"idle", "done", "panicked"}
    /\ pc' = [pc EXCEPT ![p] = "init"]
    /\ req' = [req EXCEPT ![p] = NewReq]
    /\ gates' = [gates EXCEPT ![p] = <<>>]
    /\ fx' = [fx EXCEPT ![p] = NoFx]
    /\ resp' = [resp EXCEPT ![p] = NoResp]
    /\ UNCHANGED <<limiters, window, count, mu, registered, env, scenario, initialized, clients>>

\* UploadHandler: initClients under initMu, then handleUpload
InitClients(p) ==
    /\ pc[p] = "init"
    /\ UNCHANGED <<gates, fx, limiters, window, count, mu, registered, env, scenario>>
    /\ IF initialized
       THEN /\ Proceed(p, "MethodCheck", req[p])
            /\ UNCHANGED <<initialized, clients>>
       ELSE IF ~env.project
       THEN /\ Reject(p, "init", req[p])
            /\ UNCHANGED <<initialized, clients>>
       ELSE \E fsErr \in scenario.faults, influxErr \in scenario.faults :
            IF fsErr
            THEN /\ Reject(p, "init", req[p])
                 /\ UNCHANGED <<initialized, clients>>
            ELSE /\ clients.fs < MaxAssign
                 /\ IF ~env.influx
                    THEN /\ Reject(p, "init", req[p])
                         /\ clients' = [clients EXCEPT !.fs = @ + 1]
                         /\ UNCHANGED initialized
                    ELSE IF influxErr
                    THEN /\ Reject(p, "init", req[p])
                         /\ clients' = [fs |-> clients.fs + 1,
                                        influx |-> clients.influx + 1]
                         /\ UNCHANGED initialized
                    ELSE /\ Proceed(p, "MethodCheck", req[p])
                         /\ clients' = [fs |-> clients.fs + 1,
                                        influx |-> clients.influx + 1]
                         /\ initialized' = TRUE

\* Step 1
MethodCheck(p) ==
    /\ pc[p] = "MethodCheck"
    /\ Enter(p, "MethodCheck")
    /\ \E m \in scenario.methods :
         IF m # "POST"
         THEN Reject(p, "method", req[p])
         ELSE Proceed(p, GateAfter("MethodCheck"), req[p])
    /\ UNCHANGED <<fx, limiters, window, count, mu, registered, env, scenario, initialized, clients>>

\* Step 2
AuthHeaderPresent(p) ==
    /\ pc[p] = "AuthHeaderPresent"
    /\ Enter(p, "AuthHeaderPresent")
    /\ \E h \in scenario.headers :
         IF ~h.bearer
         THEN Reject(p, "auth_header", req[p])
         ELSE Proceed(p, GateAfter("AuthHeaderPresent"),
                      [req[p] EXCEPT !.apiKey = h.rest])
    /\ UNCHANGED <<fx, limiters, window, count, mu, registered, env, scenario, initialized, clients>>

\* Step 3
ParamsPresent(p) ==
    /\ pc[p] = "ParamsPresent"
    /\ Enter(p, "ParamsPresent")
    /\ \E o \in scenario.orgs, s \in scenario.sensors[req[p].apiKey] :
         IF o = "" \/ s = Empty
         THEN Reject(p, "params", req[p])
         ELSE Proceed(p, GateAfter("ParamsPresent"),
                      [req[p] EXCEPT !.orgID = o, !.sensorID = s])
    /\ UNCHANGED <<fx, limiters, window, count, mu, registered, env, scenario, initialized, clients>>

\* docRef.Get(ctx): the document is returned only when it exists and the call
\* neither times out nor fails in transport
DocGet(present, transportErr) == present /\ ~transportErr

\* Step 4, validateAPIKey: the local permission check, then the lookup of
\* tokens/<org>/apiKeys/<apiKey>
AccessControl(p) ==
    /\ pc[p] = "AccessControl"
    /\ Enter(p, "AccessControl")
    /\ IF ~isUploadAllowed(req[p].apiKey)
       THEN /\ Reject(p, "access_key", req[p])
            /\ UNCHANGED fx
       ELSE \E transportErr \in scenario.faults :
            /\ fx' = [fx EXCEPT ![p].lookups = Append(@, "apiKeys")]
            /\ IF DocGet(req[p].apiKey \in registered, transportErr)
               THEN Proceed(p, "AccessDevice", req[p])
               ELSE Reject(p, "access_key", req[p])
    /\ UNCHANGED <<limiters, window, count, mu, registered, env, scenario, initialized, clients>>

\* Step 4, validateSensorID: the lookup of devices/<org>/sensors/<sensorID>
AccessDevice(p) ==
    /\ pc[p] = "AccessDevice"
    /\ \E transportErr \in scenario.faults :
         /\ fx' = [fx EXCEPT ![p].lookups = Append(@, "sensors")]
         /\ IF DocGet(req[p].sensorID \in RegisteredDevices, transportErr)
            THEN Proceed(p, GateAfter("AccessControl"), req[p])
            ELSE Reject(p, "access_device", req[p])
    /\ UNCHANGED <<gates, limiters, window, count, mu, registered, env, scenario, initialized, clients>>

NewWindow(tokens) == [start |-> tokens, calls |-> 0, passed |-> 0]

\* a registry that hands every caller a limiter of its own
LookupOrCreateFresh(lims, key) ==
    [k \in DOMAIN lims \cup {key} |-> IF k = key THEN Burst ELSE lims[k]]

\* getRateLimiter: limiters[key] is created only when the key is absent
LookupOrCreate(lims, key) ==
    IF key \in DOMAIN lims
    THEN lims
    ELSE [k \in DOMAIN lims \cup {key} |-> IF k = key THEN Burst ELSE lims[k]]

\* a return that leaves mu locked
UnlockedNever(holders, p) == holders

\* defer mu.Unlock()
Unlocked(holders, p) == holders \ {p}

\* Step 5, getRateLimiter: mu.Lock() blocks while another task holds mu
Lock(p) ==
    /\ pc[p] = "RateLimit"
    /\ Enter(p, "RateLimit")
    /\ mu = {}
    /\ mu' = {p}
    /\ pc' = [pc EXCEPT ![p] = "RateLookup"]
    /\ UNCHANGED <<req, resp, fx, limiters, window, count, registered, env,
                   scenario, initialized, clients>>

\* Step 5, getRateLimiter: lookup-or-create under mu; the deferred Unlock runs
\* as the function returns the limiter
RateLimit(p) ==
    /\ pc[p] = "RateLookup"
    /\ LET key == Concat(req[p].apiKey, req[p].sensorID)
       IN  /\ limiters' = LookupOrCreate(limiters, key)
           /\ window' = IF key \in DOMAIN limiters
                        THEN window
                        ELSE [k \in DOMAIN limiters \cup {key} |->
                                IF k = key THEN NewWindow(Burst) ELSE window[k]]
           /\ Proceed(p, "RateAllow", [req[p] EXCEPT !.limKey = key])
    /\ fx' = [fx EXCEPT ![p].registry = @ + 1]
    /\ mu' = Unlocked(mu, p)
    /\ UNCHANGED <<gates, count, registered, env, scenario, initialized, clients>>

\* a token handed out when none is left
AllowNowOffByOne(tokens) == tokens >= 0

\* limiter.Allow(): one token is taken when one is available now
AllowNow(tokens) == tokens >= 1

\* Step 5, limiter.Allow()
RateAllow(p) ==
    /\ pc[p] = "RateAllow"
    /\ LET key == req[p].limKey
       IN  IF AllowNow(limiters[key])
           THEN /\ limiters' = [limiters EXCEPT ![key] = @ - 1]
                /\ window' = [window EXCEPT ![key].calls = Min(@ + 1, MaxCalls),
                                            ![key].passed = @ + 1]
                /\ fx' = [fx EXCEPT ![p].tokens = @ + 1]
                /\ Proceed(p, GateAfter("RateLimit"), req[p])
           ELSE /\ window' = [window EXCEPT ![key].calls = Min(@ + 1, MaxCalls)]
                /\ Reject(p, "rate", req[p])
                /\ UNCHANGED <<limiters, fx>>
    /\ UNCHANGED <<gates, count, mu, registered, env, scenario, initialized, clients>>

\* the tokens of a limiter after `ticks` periods of 1/Rate second
Refill(tokens, ticks) == Min(Burst, tokens + ticks)

\* 1/Rate second passes: every limiter below its burst gains one token
Tick ==
    /\ \E k \in DOMAIN limiters : limiters[k] < Burst
    /\ limiters' = [k \in DOMAIN limiters |-> Refill(limiters[k], 1)]
    /\ window' = [k \in DOMAIN limiters |-> NewWindow(Refill(limiters[k], 1))]
    /\ UNCHANGED <<pc, req, gates, fx, resp, count, mu, registered, env, scenario,
                   initialized, clients>>

\* Step 6: decode, and default the reading's sensor id to the route's
DecodePayload(p) ==
    /\ pc[p] = "DecodePayload"
    /\ Enter(p, "DecodePayload")
    /\ \E body \in scenario.bodies :
         IF DecodeFails(body)
         THEN Reject(p, "decode", req[p])
         ELSE LET r == Decode(body)
                  d == IF r.SensorID.nil \/ r.SensorID.v = Empty
                       THEN [r EXCEPT !.SensorID = Ptr(FALSE, req[p].sensorID)]
                       ELSE r
              IN  Proceed(p, GateAfter("DecodePayload"),
                          [req[p] EXCEPT !.reading = d])
    /\ UNCHANGED <<fx, limiters, window, count, mu, registered, env, scenario, initialized, clients>>

\* Step 6: the timestamp must be present; it is normalised; validateReading
ReadingValidate(p) ==
    /\ pc[p] = "ReadingValidate"
    /\ Enter(p, "ReadingValidate")
    /\ LET r == req[p].reading
       IN  IF r.Timestamp.nil
           THEN Reject(p, "timestamp", req[p])
           ELSE LET raw == r.Timestamp.v
                    q == [req[p] EXCEPT !.raw = raw,
                                        !.ts = NormalizeTimestamp(raw)]
                    err == validateReading(r)
                IN  IF err # ""
                    THEN Reject(p, IF err = "value cannot be null"
                                   THEN "value_null" ELSE "value_type", q)
                    ELSE Proceed(p, GateAfter("ReadingValidate"), q)
    /\ UNCHANGED <<fx, limiters, window, count, mu, registered, env, scenario, initialized, clients>>

\* Step 7: the slice expression panics on a credential shorter than six
\* characters; net/http recovers the panic and no response is written
RetentionClassify(p) ==
    /\ pc[p] = "RetentionClassify"
    /\ Enter(p, "RetentionClassify")
    /\ IF ~SliceInRange(req[p].apiKey)
       THEN /\ pc' = [pc EXCEPT ![p] = "panicked"]
            /\ UNCHANGED <<req, resp>>
       ELSE LET code == RetentionCodeOf(req[p].apiKey)
                bucket == retentionBuckets(code)
                q == [req[p] EXCEPT !.retentionCode = code, !.bucket = bucket]
            IN  IF bucket = ""
                THEN Reject(p, "retention", q)
                ELSE Proceed(p, GateAfter("RetentionClassify"), q)
    /\ UNCHANGED <<fx, limiters, window, count, mu, registered, env, scenario, initialized, clients>>

\* Step 8, validateCountLimit
QuotaGuard(p) ==
    /\ pc[p] = "QuotaGuard"
    /\ Enter(p, "QuotaGuard")
    /\ LET quota == quotaMap(req[p].retentionCode)
       IN  IF ~quota.ok
           THEN /\ Reject(p, "quota_tier", req[p])
                /\ UNCHANGED fx
           ELSE \E out \in scenario.outcomes :
                /\ fx' = [fx EXCEPT ![p].queries = @ + 1]
                /\ LET cur == IF out = "count" THEN count[req[p].bucket] ELSE 0
                       q == [req[p] EXCEPT !.currentCount = cur,
                                           !.countRead = (out = "count")]
                   IN  IF out = "err"
                       THEN Reject(p, "query", req[p])
                       ELSE IF out = "iterErr"
                       THEN Reject(p, "iterator", q)
                       ELSE IF QuotaExceeded(cur, quota.max)
                       THEN Reject(p, "quota", q)
                       ELSE Proceed(p, GateAfter("QuotaGuard"), q)
    /\ UNCHANGED <<limiters, window, count, mu, registered, env, scenario, initialized, clients>>

\* a point sent to one database whatever the classification selected
NewPointOneDatabase(r) ==
    [database |-> "retention_7d", org |-> r.orgID, sensor |-> r.reading.SensorID.v,
     value |-> r.reading.Value, status |-> r.reading.Status, ts |-> r.ts]

\* Steps 9 and 10: influxdb3.NewPoint and point.MarshalBinary
NewPoint(r) ==
    [database |-> r.bucket, org |-> r.orgID, sensor |-> r.reading.SensorID.v,
     value |-> r.reading.Value, status |-> r.reading.Status, ts |-> r.ts]

Write(p) ==
    /\ pc[p] = "Write"
    /\ Enter(p, "Write")
    /\ \E marshalErr \in scenario.faults :
         IF marshalErr
         THEN Reject(p, "marshal", req[p])
         ELSE Proceed(p, "WriteCall", [req[p] EXCEPT !.point = NewPoint(req[p])])
    /\ UNCHANGED <<fx, limiters, window, count, mu, registered, env, scenario, initialized, clients>>

\* Step 11: influxClient.Write; a call that reports an error may or may not
\* have stored the point
WriteCall(p) ==
    /\ pc[p] = "WriteCall"
    /\ count[req[p].bucket] < CeilingOf(req[p].bucket) + MaxOver
    /\ \E writeErr \in scenario.faults, stored \in BOOLEAN :
         /\ writeErr \/ stored
         /\ fx' = [fx EXCEPT ![p].writes = Append(@, req[p].point),
                             ![p].acked = IF writeErr THEN @ ELSE @ + 1]
         /\ count' = IF stored
                     THEN [count EXCEPT ![req[p].bucket] = @ + 1]
                     ELSE count
         /\ IF writeErr
            THEN Reject(p, "write", req[p])
            ELSE Proceed(p, GateAfter("Write"), req[p])
    /\ UNCHANGED <<gates, limiters, window, mu, registered, env, scenario, initialized, clients>>

\* Step 12
Respond(p) ==
    /\ pc[p] = "Respond"
    /\ Enter(p, "Respond")
    /\ resp' = [resp EXCEPT ![p] = Accepted]
    /\ pc' = [pc EXCEPT ![p] = "done"]
    /\ UNCHANGED <<req, fx, limiters, window, count, mu, registered, env, scenario, initialized, clients>>

\* the storage engine's retention drops a stored point
Expire ==
    /\ \E b \in Buckets :
         /\ count[b] > CeilingOf(b) - MaxUnder
         /\ count' = [count EXCEPT ![b] = @ - 1]
    /\ UNCHANGED <<pc, req, gates, fx, resp, limiters, window, mu, registered, env, scenario,
                   initialized, clients>>

Next ==
    \/ \E p \in Procs :
         \/ Start(p)
         \/ InitClients(p)
         \/ MethodCheck(p)
         \/ AuthHeaderPresent(p)
         \/ ParamsPresent(p)
         \/ AccessControl(p)
         \/ AccessDevice(p)
         \/ Lock(p)
         \/ RateLimit(p)
         \/ RateAllow(p)
         \/ DecodePayload(p)
         \/ ReadingValidate(p)
         \/ RetentionClassify(p)
         \/ QuotaGuard(p)
         \/ Write(p)
         \/ WriteCall(p)
         \/ Respond(p)
    \/ Tick
    \/ Expire

Spec == Init /\ [][Next]_vars

-----------------------------------------------------------------------------
(* Two requests handled at the same time.  net/http runs every request in  *)
(* a goroutine of its own; the tasks interleave at every step.  The        *)
(* requests are those of one client population at a time, and the          *)
(* dependencies answer without failing.                                    *)

PlainBody == Body(TRUE, NoId, TsField("int", TSec), ValField("number", "21.5"), NoSt)

\* one device of one credential, posting well-formed readings
OneDevice ==
    [methods |-> {"POST"},
     headers |-> {[bearer |-> TRUE, rest |-> Str7]},
     orgs |-> {"org1"}, sensors |-> [k \in {Str7} |-> {Dev1}],
     bodies |-> {PlainBody},
     faults |-> {FALSE}, outcomes |-> {"count"}]

\* two credentials, each posting for a device of its own; the names carry ':'
ColonNames ==
    [methods |-> {"POST"},
     headers |-> {[bearer |-> TRUE, rest |-> k] : k \in {Cred6, CredColon}},
     orgs |-> {"org1"},
     sensors |-> [k \in {Cred6, CredColon} |->
                    IF k = Cred6 THEN {DevColon} ELSE {DevD}],
     bodies |-> {PlainBody},
     faults |-> {FALSE}, outcomes |-> {"count"}]

\* the client populations, each with the credentials it has registered
Populations ==
    { [scenario |-> OneDevice, registered |-> {Str7}],
      [scenario |-> ColonNames, registered |-> {Cred6, CredColon}] }

InitConc ==
    /\ pc = [p \in Procs |-> "idle"]
    /\ req = [p \in Procs |-> NewReq]
    /\ gates = [p \in Procs |-> <<>>]
    /\ fx = [p \in Procs |-> NoFx]
    /\ resp = [p \in Procs |-> NoResp]
    /\ limiters = <<>>
    /\ mu = {}
    /\ window = <<>>
    /\ count = [b \in Buckets |-> CeilingOf(b) - MaxUnder]
    /\ \E w \in Populations : scenario = w.scenario /\ registered = w.registered
    /\ env \in Envs
    /\ initialized = FALSE
    /\ clients = [fs |-> 0, influx |-> 0]

SpecConc == InitConc /\ [][Next]_vars

-----------------------------------------------------------------------------
(* Properties *)

\* the gates in the order the specification gives them
GateOrder ==
    << "MethodCheck", "AuthHeaderPresent", "ParamsPresent", "AccessControl",
       "RateLimit", "DecodePayload", "ReadingValidate", "RetentionClassify",
       "QuotaGuard", "Write", "Respond" >>

IsPrefix(s, t) == Len(s) <= Len(t) /\ s = SubSeq(t, 1, Len(s))

Entered(p, g) == \E i \in 1..Len(gates[p]) : gates[p][i] = g

Finished(p) == pc[p] = "done"

Failed(p) == pc[p] = "done" /\ req[p].cause # ""

\* the gate a failed check belongs to
GateOfCause(cause) ==
    CASE cause = "method"                          -> "MethodCheck"
      [] cause = "auth_header"                     -> "AuthHeaderPresent"
      [] cause = "params"                          -> "ParamsPresent"
      [] cause \in {"access_key", "access_device"} -> "AccessControl"
      [] cause = "rate"                            -> "RateLimit"
      [] cause = "decode"                          -> "DecodePayload"
      [] cause \in {"timestamp", "value_null", "value_type"} -> "ReadingValidate"
      [] cause = "retention"                       -> "RetentionClassify"
      [] cause \in {"quota_tier", "query", "iterator", "quota"} -> "QuotaGuard"
      [] cause \in {"marshal", "write"}            -> "Write"
      [] OTHER                                     -> "none"

\* C1: the gates of every request run in the order MethodCheck,
\* AuthHeaderPresent, ParamsPresent, AccessControl, RateLimit, DecodePayload,
\* ReadingValidate, RetentionClassify, QuotaGuard, Write, Respond with none
\* skipped; an identity-store lookup, a token, a count query and a write
\* happen only in a request that entered their gate; a request that failed
\* at a gate entered no later gate; an accepted request entered them all.
C1_GateOrder ==
    \A p \in Procs :
      /\ IsPrefix(gates[p], GateOrder)
      /\ fx[p].lookups # <<>> => Entered(p, "AccessControl")
      /\ (fx[p].registry > 0 \/ fx[p].tokens > 0) => Entered(p, "RateLimit")
      /\ fx[p].queries > 0 => Entered(p, "QuotaGuard")
      /\ fx[p].writes # <<>> => Entered(p, "Write")
      /\ (Failed(p) /\ req[p].cause # "init") =>
            gates[p][Len(gates[p])] = GateOfCause(req[p].cause)
      /\ (Failed(p) /\ req[p].cause = "init") =>
            gates[p] = <<>> /\ fx[p] = NoFx
      /\ resp[p] = Accepted => gates[p] = GateOrder

\* a request rejected by the quota guard after nine gates, with its two
\* lookups, its token and its query made and nothing written
C1_Witness ==
    \E p \in Procs :
      /\ Failed(p) /\ req[p].cause = "quota"
      /\ gates[p] = SubSeq(GateOrder, 1, 9)
      /\ fx[p].lookups = <<"apiKeys", "sensors">>
      /\ fx[p].tokens = 1 /\ fx[p].queries = 1 /\ fx[p].writes = <<>>

\* the status the specification fixes for each failed check
StatusOfCause(cause) ==
    CASE cause = "method" -> 405
      [] cause \in {"auth_header", "access_key", "access_device"} -> 401
      [] cause \in {"params", "decode", "timestamp", "value_null", "value_type",
                    "retention", "quota_tier"} -> 400
      [] cause = "rate" -> 429
      [] cause = "quota" -> 402
      [] cause \in {"init", "query", "iterator", "marshal", "write"} -> 500
      [] OTHER -> 0

\* C2: the status of every response is fixed by the first failing gate: 405
\* wrong method; 401 missing or malformed Authorization header, failed access
\* control or failed device lookup; 400 missing parameters, malformed body,
\* missing timestamp, invalid value or unknown retention code; 429 rate
\* limit; 402 quota; 500 marshal, write or internal failure; 202 only when
\* every gate passed.  401, 429 and 402 are never given for one another's
\* failure.
C2_StatusMapping ==
    \A p \in Procs :
      /\ Failed(p) => resp[p].status = StatusOfCause(req[p].cause)
      /\ resp[p] # NoResp => (Finished(p) /\ resp[p].status \in
                                {202, 400, 401, 402, 405, 429, 500})
      /\ resp[p].status = 202 <=>
           (Finished(p) /\ req[p].cause = "" /\ gates[p] = GateOrder)
      /\ resp[p].status = 401 =>
           GateOfCause(req[p].cause) \in {"AuthHeaderPresent", "AccessControl"}
      /\ resp[p].status = 429 =>
           (GateOfCause(req[p].cause) = "RateLimit" /\ fx[p].tokens = 0)
      /\ resp[p].status = 402 =>
           /\ GateOfCause(req[p].cause) = "QuotaGuard"
           /\ req[p].currentCount >= quotaMap(req[p].retentionCode).max

\* a rate-limited request answered 429
C2_Witness ==
    \E p \in Procs :
      Failed(p) /\ req[p].cause = "rate" /\ resp[p].status = 429

\* C3: a credential shorter than six characters (retention code plus access
\* level) is denied by access control without any identity-store call.
C3_ShortCredentialDenied ==
    \A p \in Procs :
      (Entered(p, "AccessControl") /\ Len(req[p].apiKey) < 6) =>
        /\ fx[p].lookups = <<>>
        /\ ~Entered(p, "RateLimit")
        /\ Finished(p) /\ resp[p].status = 401

Unauthorized == [status |-> 401, body |-> "Unauthorized"]

\* C4 (state part): a bucket never holds more than 2 tokens; while no time
\* passes, a bucket that was full lets exactly the first 2 Allow calls pass;
\* a bucket on which no call was made since time last passed holds a token;
\* a request rejected by the rate gate is answered 429.
C4_Window ==
    /\ DOMAIN window = DOMAIN limiters
    /\ \A k \in DOMAIN limiters :
         /\ limiters[k] \in 0..2
         /\ window[k].start \in 1..2
         /\ window[k].start = 2 => window[k].passed = Min(window[k].calls, 2)
         /\ window[k].passed = Min(window[k].calls, window[k].start)
         /\ limiters[k] = window[k].start - window[k].passed
    /\ \A p \in Procs :
         (Failed(p) /\ req[p].cause = "rate") => resp[p].status = 429

\* C4 (step part): an Allow call is rejected only when every token the
\* bucket had since time last passed has been handed out; time passing adds
\* tokens up to 2, so that the next call passes.
C4_Step ==
    /\ \A p \in Procs :
         (pc[p] = "RateAllow" /\ pc'[p] = "done") =>
           /\ limiters[req[p].limKey] = 0
           /\ window'[req[p].limKey].passed = window'[req[p].limKey].start
           /\ resp'[p].status = 429
    /\ \A p \in Procs :
         (pc[p] = "RateAllow" /\ limiters[req[p].limKey] >= 1) =>
           (pc'[p] = "RateAllow" \/ pc'[p] = "DecodePayload")
    /\ \A k \in DOMAIN limiters :
         limiters'[k] > limiters[k] =>
           (limiters'[k] = Min(2, limiters[k] + 1) /\ limiters'[k] >= 1)

\* C4: for a (credential, device) pair whose bucket is full, exactly 2
\* requests that reach the rate gate with no time in between pass it and the
\* 3rd is rejected with 429; as time passes tokens come back, never above 2,
\* and a later request passes again.
C4_BurstOfTwo == []C4_Window /\ [][C4_Step]_vars

\* three calls on a full bucket with no time in between: two passed and the
\* third was rejected
C4_Witness ==
    \E p \in Procs :
      /\ Failed(p) /\ req[p].cause = "rate"
      /\ window[req[p].limKey] = [start |-> 2, calls |-> 3, passed |-> 2]

\* the tier of a credential holds at least its ceiling
TierFull(p) ==
    /\ SliceInRange(req[p].apiKey)
    /\ retentionBuckets(RetentionCodeOf(req[p].apiKey)) # ""
    /\ LET b == retentionBuckets(RetentionCodeOf(req[p].apiKey))
       IN  count[b] >= CeilingOf(b)

C5_Ceilings ==
    /\ CeilingOf("retention_7d") = 10000
    /\ CeilingOf("retention_30d") = 100000
    /\ CeilingOf("retention_90d") = 1000000
    /\ CeilingOf("retention_180d") = 10000000
    /\ CeilingOf("retention_365d") = 1000000000

C5_State ==
    /\ C5_Ceilings
    /\ \A p \in Procs :
         ( /\ Entered(p, "QuotaGuard")
           /\ req[p].countRead
           /\ req[p].currentCount >= CeilingOf(req[p].bucket) ) =>
         (Failed(p) /\ resp[p].status = 402 /\ fx[p].writes = <<>>)

C5_Step ==
    \A p \in Procs :
      ( /\ pc[p] = "QuotaGuard"
        /\ pc'[p] # "QuotaGuard"
        /\ req'[p].countRead
        /\ count[req[p].bucket] >= CeilingOf(req[p].bucket) ) =>
      ( /\ pc'[p] = "done"
        /\ resp'[p].status = 402
        /\ fx'[p].writes = <<>>
        /\ count' = count )

C6_FailClosed ==
    \A p \in Procs :
      /\ (Failed(p) /\ req[p].cause \in {"query", "iterator"}) =>
           (resp[p].status = 500 /\ fx[p].writes = <<>>)
      /\ Entered(p, "Write") =>
           /\ req[p].countRead
           /\ req[p].currentCount < quotaMap(req[p].retentionCode).max

LookupFailed(p) ==
    /\ Failed(p)
    /\ req[p].cause \in {"access_key", "access_device"}
    /\ fx[p].lookups # <<>>

\* C7: a failed identity-store lookup is answered 401 "Unauthorized" whether
\* the credential lookup or the device lookup failed, so the two cannot be
\* told apart by the response; the request takes no rate token and makes no
\* storage call.
C7_UniformUnauthorized ==
    /\ \A p \in Procs :
         LookupFailed(p) =>
           /\ resp[p] = Unauthorized
           /\ fx[p].registry = 0 /\ fx[p].tokens = 0
           /\ fx[p].queries = 0 /\ fx[p].writes = <<>>
    /\ \A p, q \in Procs :
         (LookupFailed(p) /\ LookupFailed(q)) => resp[p] = resp[q]

\* a request whose credential lookup succeeded and whose device lookup failed
C7_Witness ==
    \E p \in Procs :
      /\ LookupFailed(p) /\ req[p].cause = "access_device"
      /\ fx[p].lookups = <<"apiKeys", "sensors">>
      /\ resp[p] = Unauthorized

-----------------------------------------------------------------------------
(* Timestamps *)

\* 10^12
TenToTwelve == Big(1000 * 1000, 0)

\* whole milliseconds since the epoch of an instant
AsMillis(t) ==
    LET l == t.sec.lo * 1000
    IN  Big(t.sec.hi * 1000 + (l \div Base), (l % Base) + (t.nsec \div Base))

IsSeconds(t, raw) == t.sec = raw /\ t.nsec = 0

IsMillis(t, raw) == AsMillis(t) = raw /\ t.nsec % Base = 0 /\ t.nsec \in 0..(1000 * Base - 1)

Normalized(p) == Entered(p, "ReadingValidate") /\ ~req[p].reading.Timestamp.nil

\* C8: a raw timestamp t below 10^12 is normalised to t whole seconds since
\* the epoch, any other to t whole milliseconds; 10^12 itself is
\* milliseconds and 10^12 - 1 is seconds.
C8_SignedThreshold ==
    \A p \in Procs :
      Normalized(p) =>
        /\ req[p].raw = req[p].reading.Timestamp.v
        /\ IF BigLt(req[p].raw, TenToTwelve)
           THEN IsSeconds(req[p].ts, req[p].raw)
           ELSE IsMillis(req[p].ts, req[p].raw)
        /\ req[p].raw = Big(1000000, 0) => req[p].ts = Instant(Big(1000, 0), 0)
        /\ req[p].raw = Big(999999, 999999) =>
             req[p].ts = Instant(Big(999999, 999999), 0)

\* the timestamp 10^12 normalised to 10^9 seconds
C8_Witness ==
    \E p \in Procs :
      /\ Normalized(p)
      /\ req[p].raw = Big(1000000, 0)
      /\ req[p].ts = Instant(Big(1000, 0), 0)

\* C9 as stated: a raw timestamp, negative ones included, is seconds when
\* its magnitude is below 10^12 and milliseconds otherwise.
C9_Original ==
    \A p \in Procs :
      Normalized(p) =>
        IF BigLt(BigAbs(req[p].raw), TenToTwelve)
        THEN IsSeconds(req[p].ts, req[p].raw)
        ELSE IsMillis(req[p].ts, req[p].raw)

\* C9 (amended): the signed value decides, not the magnitude: every negative
\* raw timestamp is seconds, however large its magnitude; a non-negative one
\* is seconds when below 10^12 and milliseconds otherwise.
C9_NegativeIsSeconds ==
    \A p \in Procs :
      Normalized(p) =>
        IF req[p].raw.hi < 0
        THEN IsSeconds(req[p].ts, req[p].raw)
        ELSE IF BigLt(BigAbs(req[p].raw), TenToTwelve)
             THEN IsSeconds(req[p].ts, req[p].raw)
             ELSE IsMillis(req[p].ts, req[p].raw)

\* the timestamp -(10^12) normalised to -(10^12) seconds
C9_Witness ==
    \E p \in Procs :
      /\ Normalized(p)
      /\ req[p].raw = Big(0 - 1000000, 0)
      /\ req[p].ts = Instant(Big(0 - 1000000, 0), 0)

-----------------------------------------------------------------------------
(* Reading validation *)

Decoded(p) == Entered(p, "DecodePayload") /\ req[p].cause # "decode"

Scalar(v) == v.t \in {"float64", "string", "bool"}

\* C10: a decoded reading whose value is absent, null, an array or an
\* object is rejected with 400 whatever its other members are, before any
\* retention classification, count query or write; a value that is a number,
\* a string or a boolean passes the validator.
C10_ValueKinds ==
    \A p \in Procs :
      /\ (Decoded(p) /\ ~Scalar(req[p].reading.Value)) =>
           /\ pc[p] \in {"ReadingValidate", "done"}
           /\ Finished(p) =>
                /\ resp[p].status = 400
                /\ req[p].cause \in {"timestamp", "value_null", "value_type"}
           /\ ~Entered(p, "RetentionClassify")
           /\ req[p].bucket = ""
           /\ fx[p].queries = 0 /\ fx[p].writes = <<>>
      /\ (Decoded(p) /\ Scalar(req[p].reading.Value)) =>
           req[p].cause \notin {"value_null", "value_type"}
      /\ (Normalized(p) /\ Scalar(req[p].reading.Value)) =>
           Entered(p, "RetentionClassify") \/ pc[p] = "RetentionClassify"
      /\ (Failed(p) /\ req[p].cause \in {"value_null", "value_type"}) =>
           (~Scalar(req[p].reading.Value) /\ ~req[p].reading.Timestamp.nil)

\* an array value with a sensor id, a timestamp and a status all well-formed,
\* rejected by the validator
C10_Witness ==
    \E p \in Procs :
      /\ Failed(p) /\ req[p].cause = "value_type"
      /\ req[p].reading.Value.t = "slice"
      /\ req[p].reading.SensorID = Ptr(FALSE, Dev2)
      /\ req[p].reading.Status = Ptr(FALSE, "ok")
      /\ resp[p].status = 400

-----------------------------------------------------------------------------
\* the request of the end-to-end example: credential k000702, route
\* org1/dev1, body {"timestamp": 1700000000, "value": 21.5}
C11_Request(p) ==
    /\ req[p].apiKey = Str7
    /\ req[p].orgID = "org1"
    /\ req[p].sensorID = Dev1
    /\ req[p].reading = [SensorID  |-> Ptr(FALSE, Dev1),
                         Timestamp |-> Ptr(FALSE, TSec),
                         Value     |-> [t |-> "float64", v |-> "21.5"],
                         Status    |-> Ptr(TRUE, "")]

\* what stops a well-formed request after decoding: a dependency that fails,
\* or a stored count at the ceiling
DependencyCauses == {"query", "iterator", "quota", "marshal", "write"}

C11_Point ==
    [database |-> "retention_7d", org |-> "org1", sensor |-> Dev1,
     value |-> [t |-> "float64", v |-> "21.5"], status |-> Ptr(TRUE, ""),
     ts |-> Instant(TSec, 0)]

\* C11: a POST for org1/dev1 with a registered credential of retention 0007
\* and level 02, a registered device, a token available, a stored count below
\* the ceiling and the body {"timestamp": 1700000000, "value": 21.5} is
\* answered 202 {"status":"accepted"} unless a dependency fails, and the
\* storage engine has then received exactly one point: in retention_7d, tagged
\* org=org1 and sensor=dev1, with value 21.5, no status, at 1700000000 s UTC.
C11_EndToEnd ==
    \A p \in Procs :
      (C11_Request(p) /\ Finished(p) /\ req[p].cause \notin DependencyCauses) =>
        /\ resp[p] = Accepted
        /\ fx[p].writes = <<C11_Point>>
        /\ fx[p].acked = 1
        /\ fx[p].tokens = 1
        /\ fx[p].lookups = <<"apiKeys", "sensors">>
        /\ req[p].countRead => req[p].currentCount < CeilingOf("retention_7d")

\* the example request, accepted after a count read below the ceiling
C11_Witness ==
    \E p \in Procs :
      /\ C11_Request(p) /\ Finished(p)
      /\ resp[p].status = 202
      /\ req[p].countRead /\ req[p].currentCount = CeilingOf("retention_7d") - 1
      /\ fx[p].writes = <<C11_Point>>

-----------------------------------------------------------------------------
\* the codes of the tier table
KnownCodes == {Code7, Code30, Code90, Code180, Code365}

\* the credential of task p has a 4-character retention code, the 6th-from-last
\* through 3rd-from-last characters, and the tier table does not hold it
UnknownCode(p) ==
    /\ SliceInRange(req[p].apiKey)
    /\ RetentionCodeOf(req[p].apiKey) \notin KnownCodes

\* C12: a request that passes every gate up to retention classification and
\* whose credential's 4-character retention code is not one of 0007, 0030,
\* 0090, 0180, 0365 is rejected with 400; no count query and no write call is
\* made for it.  A request is rejected for its retention level only then.
C12_UnknownRetention ==
    \A p \in Procs :
      /\ (Entered(p, "RetentionClassify") /\ UnknownCode(p)) =>
           /\ Failed(p)
           /\ req[p].cause = "retention"
           /\ resp[p] = HttpError("retention")
           /\ resp[p].status = 400
           /\ ~Entered(p, "QuotaGuard")
           /\ fx[p].queries = 0 /\ fx[p].writes = <<>> /\ fx[p].acked = 0
      /\ (Failed(p) /\ req[p].cause = "retention") =>
           (Entered(p, "RetentionClassify") /\ UnknownCode(p))

\* credential k999904 on a registered device, having taken a token and sent a
\* valid reading, rejected at the classification
C12_Witness ==
    \E p \in Procs :
      /\ Failed(p) /\ req[p].cause = "retention"
      /\ req[p].apiKey = Str999
      /\ req[p].retentionCode = <<"9", "9", "9", "9">>
      /\ fx[p].tokens = 1
      /\ resp[p].status = 400

-----------------------------------------------------------------------------
\* C13: the write step makes exactly one write call, to the database that the
\* retention classification selected; 202 is returned only after that call
\* succeeded; after a failed write the answer is 500 and the write is not
\* tried again; a request answered with anything but 202 or the write-failure
\* 500, or not answered at all, has made no write call.
C13_SingleWrite ==
    \A p \in Procs :
      /\ Len(fx[p].writes) <= 1
      /\ fx[p].acked <= Len(fx[p].writes)
      /\ \A i \in 1..Len(fx[p].writes) :
           /\ fx[p].writes[i].database = retentionBuckets(RetentionCodeOf(req[p].apiKey))
           /\ fx[p].writes[i].database = req[p].bucket
           /\ fx[p].writes[i].database \in Buckets
      /\ pc[p] = "WriteCall" => fx[p].writes = <<>>
      /\ (pc[p] = "Respond" \/ resp[p].status = 202) =>
           (Len(fx[p].writes) = 1 /\ fx[p].acked = 1)
      /\ (Failed(p) /\ req[p].cause = "write") =>
           (resp[p].status = 500 /\ Len(fx[p].writes) = 1 /\ fx[p].acked = 0)
      /\ (Finished(p) /\ resp[p].status # 202 /\ req[p].cause # "write") =>
           fx[p].writes = <<>>
      /\ pc[p] = "panicked" => fx[p].writes = <<>>

\* a request of the 365-day tier whose single write call failed, answered 500
C13_Witness ==
    \E p \in Procs :
      /\ Failed(p) /\ req[p].cause = "write"
      /\ resp[p].status = 500
      /\ Len(fx[p].writes) = 1
      /\ fx[p].writes[1].database = "retention_365d"

-----------------------------------------------------------------------------
\* C14: each client handle is initialized at most once over the life of the
\* process: for concurrent first requests, for later requests and after an
\* initialization attempt that failed part-way, no handle is constructed or
\* assigned a second time; and no request runs a gate before both handles are
\* initialized.
C14_InitOnce ==
    /\ clients.fs <= 1
    /\ clients.influx <= 1
    /\ \A p \in Procs :
         (gates[p] # <<>> \/ pc[p] = "MethodCheck") =>
           (initialized /\ clients.fs >= 1 /\ clients.influx >= 1)

-----------------------------------------------------------------------------
\* the places where a task waits for the identity store or the storage engine
IOPlaces == {"AccessControl", "AccessDevice", "QuotaGuard", "WriteCall"}

\* task p has its limiter and has not called Allow yet
BetweenLookupAndAllow(p) == pc[p] = "RateAllow"

\* task q looks a limiter up or takes a token in this step
RateStep(q) == pc[q] \in {"RateLookup", "RateAllow"} /\ pc'[q] # pc[q]

-----------------------------------------------------------------------------
\* C16: when the requests of an organization and tier are handled one at a
\* time, the stored count never exceeds the tier's ceiling.
C16_SequentialWithinCeiling ==
    \A b \in Buckets : count[b] <= CeilingOf(b)

\* C16, the race: two requests of one tier that both read the count one below
\* the ceiling, both passed the quota guard and both stored a point, leaving
\* the count above the ceiling
C16_Race ==
    \E p \in Procs : \E q \in Procs \ {p} :
      /\ req[p].bucket = req[q].bucket /\ req[p].bucket \in Buckets
      /\ req[p].countRead /\ req[p].currentCount = CeilingOf(req[p].bucket) - 1
      /\ req[q].countRead /\ req[q].currentCount = CeilingOf(req[q].bucket) - 1
      /\ fx[p].acked = 1 /\ fx[q].acked = 1
      /\ count[req[p].bucket] > CeilingOf(req[p].bucket)

-----------------------------------------------------------------------------
\* every task that has its limiter has the one registered under its key, and
\* no more than Burst calls on a key have passed since time last passed
C17_State ==
    /\ DOMAIN window = DOMAIN limiters
    /\ \A k \in DOMAIN limiters :
         /\ limiters[k] \in 0..Burst
         /\ window[k].passed <= Burst
         /\ window[k].passed + limiters[k] <= Burst
    /\ \A p \in Procs :
         pc[p] = "RateAllow" =>
           /\ req[p].limKey = Concat(req[p].apiKey, req[p].sensorID)
           /\ req[p].limKey \in DOMAIN limiters

\* task p takes a token of key k in this step
TakesToken(p, k) ==
    /\ pc[p] = "RateAllow" /\ req[p].limKey = k
    /\ pc'[p] = GateAfter("RateLimit")

\* no task moves in this step: time passes or a stored point expires
NoTaskMoves == \A p \in Procs : pc'[p] = pc[p]

\* a key stays in the registry, and the tokens under it change only by one
\* request taking one token or by time passing
C17_Step ==
    \A k \in DOMAIN limiters :
      /\ k \in DOMAIN limiters'
      /\ limiters'[k] # limiters[k] =>
           \/ /\ limiters'[k] = limiters[k] - 1
              /\ \E p \in Procs : TakesToken(p, k)
           \/ /\ limiters'[k] = Refill(limiters[k], 1)
              /\ NoTaskMoves

\* C17: the registry only grows and holds one bucket per key: under every
\* interleaving, concurrent first requests for one key included, a key once
\* present is never removed and its bucket is never replaced by a fresh one,
\* so every request for the key consumes from the same token state and no
\* more than 2 requests per key pass without time elapsing.
C17_OneBucketPerKey == []C17_State /\ [][C17_Step]_vars

\* two requests in flight for one key hold one bucket: the first has taken a
\* token of the full bucket and the second, about to call Allow, finds one left
C17_Witness ==
    \E p \in Procs : \E q \in Procs \ {p} :
      /\ req[p].limKey = req[q].limKey
      /\ req[p].apiKey = req[q].apiKey
      /\ pc[p] = GateAfter("RateLimit") /\ fx[p].tokens = 1
      /\ pc[q] = "RateAllow"
      /\ window[req[q].limKey] = [start |-> Burst, calls |-> 1, passed |-> 1]
      /\ limiters[req[q].limKey] = Burst - 1

-----------------------------------------------------------------------------
\* the statuses handleUpload writes
Statuses == {202, 400, 401, 402, 405, 429, 500}

\* C18: every request that enters handleUpload ends with exactly one response
\* whose status is one of 202, 400, 401, 402, 405, 429, 500, whatever the
\* credential and the identity store hold: a credential that passes access
\* control has at least 6 characters, the retention slice never indexes
\* outside the string, and the handler never ends without a response.
C18_AlwaysResponds ==
    \A p \in Procs :
      /\ pc[p] # "panicked"
      /\ Finished(p) => resp[p].status \in Statuses
      /\ (gates[p] # <<>> /\ resp[p] = NoResp) => pc[p] # "done"
      /\ Entered(p, "RateLimit") => Len(req[p].apiKey) >= 6
      /\ Entered(p, "RetentionClassify") => SliceInRange(req[p].apiKey)

-----------------------------------------------------------------------------
\* the device whose document the device check of task p's request found
CheckedDevice(p, dev) ==
    /\ Entered(p, "RateLimit")
    /\ fx[p].lookups = <<"apiKeys", "sensors">>
    /\ dev = req[p].sensorID
    /\ dev \in RegisteredDevices

\* C19: every written point carries a sensor tag that names a device whose
\* existence under the organization was confirmed by the device check of the
\* same request; a sensorId in the body that differs from the route's
\* sensor_id never leads to a point tagged with a device that was not checked.
C19_TagChecked ==
    \A p \in Procs :
      \A i \in 1..Len(fx[p].writes) :
        CheckedDevice(p, fx[p].writes[i].sensor)

-----------------------------------------------------------------------------
\* task p has looked its limiter up
HasLimiter(p) == req[p].limKey # Empty

\* C20: two requests with different (credential, device id) pairs never share
\* a token bucket: the registry key is injective in the pair, also for
\* strings that contain ':'.
C20_KeyInjective ==
    \A p \in Procs : \A q \in Procs \ {p} :
      ( /\ HasLimiter(p) /\ HasLimiter(q)
        /\ <<req[p].apiKey, req[p].sensorID>> # <<req[q].apiKey, req[q].sensorID>> )
      => req[p].limKey # req[q].limKey

====
